---- MODULE Spec2Model ----
(***************************************************************************)
(* Model of streamlit_app.py: the time-to-target solver                    *)
(* (calculate_years_to_target), the projection builder                     *)
(* (build_projection_table) and the Calculate flow of main.                *)
(*                                                                         *)
(* Numbers.  The program computes in Python floats (IEEE binary64).  The   *)
(* model computes in a small binary format with the same rules: a finite   *)
(* value is an integer count of units of 2^-FracBits, of magnitude at most *)
(* MaxUnits; every operation returns the exact result rounded to the       *)
(* nearest unit, ties to even; a result above MaxUnits overflows to an     *)
(* infinity, a result below half a unit underflows to zero; inf - inf,     *)
(* inf * 0 and inf / inf are NaN, and NaN compares false with everything.  *)
(* Operations that Python refuses (division by zero, log of a non-positive *)
(* number, ceil of NaN) are raised exceptions.  On values that are exact   *)
(* binary fractions the model and binary64 agree digit for digit.          *)
(***************************************************************************)
EXTENDS Integers, Sequences, FiniteSets, TLC

\* ------------------------------------------------------------------------
\* Bounds of the number format
\* ------------------------------------------------------------------------
FracBits == 11
IntBits == 17

Scale == 2 ^ FracBits
MaxUnits == 2 ^ (FracBits + IntBits) - 1

PosInf == MaxUnits + 1
NegInf == 0 - PosInf
NaN == MaxUnits + 2

IsNaN(x) == x = NaN
IsInf(x) == x = PosInf \/ x = NegInf
IsFinite(x) == x >= 0 - MaxUnits /\ x <= MaxUnits

Abs(x) == IF x < 0 THEN 0 - x ELSE x
Sgn(x) == IF x < 0 THEN 0 - 1 ELSE IF x > 0 THEN 1 ELSE 0

\* n dollars and num/den dollars as counts of units
Dollars(n) == n * Scale
Frac(num, den) == (num * Scale) \div den

\* overflow of a finite result to an infinity
Overflow(v) == IF v > MaxUnits THEN PosInf ELSE IF v < 0 - MaxUnits THEN NegInf ELSE v

\* n / d rounded to the nearest integer, ties to even (n >= 0, d > 0)
RoundHalfEven(n, d) ==
    LET q == n \div d
        rem == n % d
    IN  IF 2 * rem > d \/ (2 * rem = d /\ q % 2 = 1) THEN q + 1 ELSE q

\* ------------------------------------------------------------------------
\* Float comparisons (a NaN operand makes every ordered comparison false)
\* ------------------------------------------------------------------------
FLe(a, b) == ~IsNaN(a) /\ ~IsNaN(b) /\ a <= b
FLt(a, b) == ~IsNaN(a) /\ ~IsNaN(b) /\ a < b
FGe(a, b) == ~IsNaN(a) /\ ~IsNaN(b) /\ a >= b
FGt(a, b) == ~IsNaN(a) /\ ~IsNaN(b) /\ a > b
FEq(a, b) == ~IsNaN(a) /\ ~IsNaN(b) /\ a = b
FNe(a, b) == ~FEq(a, b)

\* ------------------------------------------------------------------------
\* Float arithmetic
\* ------------------------------------------------------------------------
FNeg(a) == IF IsNaN(a) THEN NaN ELSE 0 - a

FAdd(a, b) ==
    IF IsNaN(a) \/ IsNaN(b) THEN NaN
    ELSE IF IsInf(a) THEN (IF IsInf(b) /\ a # b THEN NaN ELSE a)
    ELSE IF IsInf(b) THEN b
    ELSE Overflow(a + b)

FSub(a, b) == FAdd(a, FNeg(b))

\* |a| * |b| / Scale for magnitudes, split so that no partial product
\* leaves the 32-bit integers of TLC
MulMag(a, b) ==
    LET ah == a \div Scale
        al == a % Scale
        bh == b \div Scale
        bl == b % Scale
    IN  IF ah > 0 /\ b > MaxUnits \div ah THEN PosInf
        ELSE Overflow(ah * b + al * bh + RoundHalfEven(al * bl, Scale))

FMul(a, b) ==
    IF IsNaN(a) \/ IsNaN(b) THEN NaN
    ELSE IF IsInf(a) \/ IsInf(b)
         THEN (IF a = 0 \/ b = 0 THEN NaN
               ELSE IF Sgn(a) * Sgn(b) > 0 THEN PosInf ELSE NegInf)
    ELSE LET m == MulMag(Abs(a), Abs(b))
         IN  IF Sgn(a) * Sgn(b) < 0 THEN 0 - m ELSE m

\* binary long division: k more quotient bits of rem / b, as <<quotient, remainder>>
RECURSIVE DivBits(_, _, _, _)
DivBits(q, rem, b, k) ==
    IF k = 0 THEN <<q, rem>>
    ELSE IF 2 * rem >= b THEN DivBits(2 * q + 1, 2 * rem - b, b, k - 1)
         ELSE DivBits(2 * q, 2 * rem, b, k - 1)

\* |a| / |b| * Scale for magnitudes, b > 0
DivMag(a, b) ==
    LET q0 == a \div b
    IN  IF q0 > MaxUnits \div Scale THEN PosInf
        ELSE LET qr == DivBits(q0, a % b, b, FracBits)
                 q == qr[1]
                 rem == qr[2]
             IN  Overflow(IF 2 * rem > b \/ (2 * rem = b /\ q % 2 = 1) THEN q + 1 ELSE q)

\* a / b for b # 0 (Python raises ZeroDivisionError for b = 0: the callers test it)
FDiv(a, b) ==
    IF IsNaN(a) \/ IsNaN(b) THEN NaN
    ELSE IF IsInf(a) THEN (IF IsInf(b) THEN NaN
                           ELSE IF Sgn(a) * Sgn(b) > 0 THEN PosInf ELSE NegInf)
    ELSE IF IsInf(b) THEN 0
    ELSE LET m == DivMag(Abs(a), Abs(b))
         IN  IF Sgn(a) * Sgn(b) < 0 THEN 0 - m ELSE m

\* floor(log2(x)) for an integer x >= 1
RECURSIVE ILog2(_)
ILog2(x) == IF x < 2 THEN 0 ELSE 1 + ILog2(x \div 2)

\* the leading 15 bits of x: x / 2^ILog2(x) in units of 2^-14, in [2^14, 2^15)
Mantissa(x) ==
    LET e == ILog2(x)
    IN  IF e <= 14 THEN x * 2 ^ (14 - e) ELSE x \div 2 ^ (e - 14)

\* k more bits of log2(m / 2^14) by repeated squaring, appended to acc
RECURSIVE Log2Bits(_, _, _)
Log2Bits(m, k, acc) ==
    IF k = 0 THEN acc
    ELSE LET sq == (m * m) \div 2 ^ 14
         IN  IF sq >= 2 ^ 15 THEN Log2Bits(sq \div 2, k - 1, 2 * acc + 1)
             ELSE Log2Bits(sq, k - 1, 2 * acc)

\* ln(x / Scale) in units, for a finite x > 0: log2 to 14 fractional bits,
\* times ln 2 = 2839 / 4096, rounded to the nearest unit
Ln(x) ==
    LET t == (ILog2(x) - FracBits) * 2 ^ 14 + Log2Bits(Mantissa(x), 14, 0)
        mag == RoundHalfEven(Abs(t) * 2839, 2 ^ (26 - FracBits))
    IN  IF t < 0 THEN 0 - mag ELSE mag

\* math.log(x) for x > 0, +inf or NaN (Python raises ValueError for x <= 0:
\* the callers test it)
FLog(x) == IF IsNaN(x) THEN NaN ELSE IF x = PosInf THEN PosInf ELSE Ln(x)

\* the value of a non-negative finite a in cents, rounded half to even
ToCents(a) == (a \div Scale) * 100 + RoundHalfEven((a % Scale) * 100, Scale)

\* the float nearest to c cents
FromCents(c) == Overflow((c \div 100) * Scale + RoundHalfEven((c % 100) * Scale, 100))

\* round(x, 2): infinities and NaN pass through
Round2(x) ==
    IF ~IsFinite(x) THEN x
    ELSE IF x < 0 THEN 0 - FromCents(ToCents(0 - x)) ELSE FromCents(ToCents(x))

\* the 2-decimal value a rounded field denotes, in cents
Cents(x) == IF x < 0 THEN 0 - ToCents(0 - x) ELSE ToCents(x)

\* math.ceil(x) for a finite x, as an integer
Ceil(x) == IF x >= 0 THEN (x + Scale - 1) \div Scale ELSE 0 - ((0 - x) \div Scale)

\* ------------------------------------------------------------------------
\* Program constants and call outcomes
\* ------------------------------------------------------------------------
MonthsPerYear == 12
UnreachableCapYears == 30

One == Dollars(1)
Twelve == Dollars(MonthsPerYear)

\* a call either returns a float or raises an exception
Return(v) == [kind |-> "return", exc |-> "", value |-> v]
Raise(e) == [kind |-> "raise", exc |-> e, value |-> NaN]

\* ------------------------------------------------------------------------
\* calculate_years_to_target
\* ------------------------------------------------------------------------

\* months = math.log(x) / math.log(1 + r); return round(months / 12, 2)
LogMonthsToYears(x, r) ==
    IF FLe(x, 0) \/ FLe(FAdd(One, r), 0) THEN Raise("ValueError")
    ELSE IF FLog(FAdd(One, r)) = 0 THEN Raise("ZeroDivisionError")
    ELSE Return(Round2(FDiv(FDiv(FLog(x), FLog(FAdd(One, r))), Twelve)))

\* the branch with contributions: x = (target + pmt/r) / (current + pmt/r)
WithContributions(current_value, target_value, r, pmt) ==
    IF r = 0 THEN Raise("ZeroDivisionError")
    ELSE LET numerator == FAdd(target_value, FDiv(pmt, r))
             denominator == FAdd(current_value, FDiv(pmt, r))
         IN  IF FLe(denominator, 0) THEN Return(PosInf)
             ELSE LET ratio == FDiv(numerator, denominator)
                  IN  IF FLe(ratio, 0) THEN Return(PosInf)
                      ELSE LogMonthsToYears(ratio, r)

calculate_years_to_target(current_value, target_value, annual_rate, monthly_contribution) ==
    IF FGe(current_value, target_value) THEN Return(0)
    ELSE IF FLe(annual_rate, 0)
    THEN IF FLe(monthly_contribution, 0) THEN Return(PosInf)
         ELSE LET remaining == FSub(target_value, current_value)
                  months == FDiv(remaining, monthly_contribution)
              IN  Return(Round2(FDiv(months, Twelve)))
    ELSE LET r == FDiv(annual_rate, Twelve)
             pmt == monthly_contribution
         IN  IF FEq(pmt, 0)
             THEN IF FLe(current_value, 0) THEN Return(PosInf)
                  ELSE LogMonthsToYears(FDiv(target_value, current_value), r)
             ELSE WithContributions(current_value, target_value, r, pmt)

\* ------------------------------------------------------------------------
\* build_projection_table
\* ------------------------------------------------------------------------

\* a horizon rounded down instead of up
TotalYears_floor(years) ==
    IF FNe(years, PosInf) THEN years \div Scale ELSE UnreachableCapYears

\* the 30-year cap applied to a finite horizon as well
TotalYears_capped(years) ==
    IF FNe(years, PosInf) /\ Ceil(years) <= UnreachableCapYears
    THEN Ceil(years) ELSE UnreachableCapYears

\* int(math.ceil(years)) if years != float("inf") else 30
TotalYears(years) == IF FNe(years, PosInf) THEN Ceil(years) ELSE UnreachableCapYears

\* a month that takes interest and contribution out of the balance
MonthStep_subtract(st, monthly_rate, monthly_contribution) ==
    LET interest == FMul(st.balance, monthly_rate)
    IN  [balance |-> FSub(st.balance, FAdd(interest, monthly_contribution)),
         growth_this_year |-> FAdd(st.growth_this_year, interest),
         contributions_this_year |-> FAdd(st.contributions_this_year, monthly_contribution),
         iterations |-> st.iterations + 1]

\* one pass of the body of the monthly loop, on
\* [balance, growth_this_year, contributions_this_year, iterations]
MonthStep(st, monthly_rate, monthly_contribution) ==
    LET interest == FMul(st.balance, monthly_rate)
    IN  [balance |-> FAdd(st.balance, FAdd(interest, monthly_contribution)),
         growth_this_year |-> FAdd(st.growth_this_year, interest),
         contributions_this_year |-> FAdd(st.contributions_this_year, monthly_contribution),
         iterations |-> st.iterations + 1]

\* for _ in range(12)
RECURSIVE MonthLoop(_, _, _, _)
MonthLoop(st, k, monthly_rate, monthly_contribution) ==
    IF k = 0 THEN st
    ELSE MonthLoop(MonthStep(st, monthly_rate, monthly_contribution), k - 1,
                   monthly_rate, monthly_contribution)

\* the row appended at the end of a simulated year
MakeRow(year, st) ==
    [Year |-> year,
     StartingBalance |-> Round2(FSub(FSub(st.balance, st.growth_this_year),
                                     st.contributions_this_year)),
     Contributions |-> Round2(st.contributions_this_year),
     Growth |-> Round2(st.growth_this_year),
     EndingBalance |-> Round2(st.balance)]

\* ------------------------------------------------------------------------
\* State
\* ------------------------------------------------------------------------
VARIABLES
    caller,                \* "direct" (the functions called on their own) or "main"
    pc,                    \* where the caller or the builder's loop stands
    current_value, target_value, annual_rate, monthly_contribution,   \* the inputs
    years,                 \* what calculate_years_to_target returned, once called
    horizon,               \* the years argument of build_projection_table
    total_years, year, balance, rows,   \* the locals of build_projection_table
    iterations,            \* passes of the monthly loop made so far
    exc,                   \* the exception a call raised, "" if none
    calls,                 \* the functions main has called, in order
    ui                     \* what main has shown

vars == <<caller, pc, current_value, target_value, annual_rate, monthly_contribution,
          years, horizon, total_years, year, balance, rows, iterations, exc, calls, ui>>

inputs == <<caller, current_value, target_value, annual_rate, monthly_contribution>>
locals == <<horizon, total_years, year, balance, rows, iterations>>

NoResult == [kind |-> "none", exc |-> "", value |-> NaN]

\* ------------------------------------------------------------------------
\* Bounds of the inputs
\* ------------------------------------------------------------------------
MaxYears == 31

\* the builder and the round trip are driven with exact binary fractions
DirectCurrents == {Dollars(0 - 1), 0, Frac(1, 8), One, Dollars(1000)}
DirectTargets == {0, Dollars(372), Dollars(4137)}
DirectRates == {Dollars(0 - 12), 0, Dollars(12), Dollars(24)}
DirectContributions == {Dollars(0 - 5), 0, Frac(3, 32), One}

\* the solver alone is driven to the ends of the format as well: Tiny is its
\* smallest positive float (5e-324 in binary64), Huge a float near its largest
\* (1e308 in binary64)
Tiny == 0 + 1
Huge == Dollars(80000)
SolverCurrents == DirectCurrents \union {Tiny}
SolverTargets == DirectTargets \union {Dollars(0 - 1), Dollars(2000), Huge}
SolverRates == DirectRates \union {Tiny, Frac(6, 100), Dollars(6)}
SolverContributions == DirectContributions \union {Tiny, Dollars(100), Huge}

Horizons == {0, Frac(1, 2), One, Frac(5, 2), Dollars(UnreachableCapYears + 1), PosInf}

\* the number inputs of main have min_value=0.0; the rate comes from PORTFOLIO_RATES
PORTFOLIO_RATES == {Frac(6, 100), Frac(8, 100), Frac(7, 100), Frac(9, 100), Frac(10, 100)}
MainCurrents == {0, Dollars(100), Dollars(200)}
MainTargets == {Dollars(100), Frac(10001, 100), Dollars(200), Dollars(400)}
MainContributions == {0, Dollars(5)}

InitLocals ==
    /\ years = NoResult
    /\ horizon = 0 /\ total_years = 0 /\ year = 0 /\ balance = 0 /\ rows = <<>>
    /\ iterations = 0 /\ exc = "" /\ calls = <<>> /\ ui = "none"

InitDirect ==
    /\ caller = "direct" /\ pc = "start"
    /\ current_value \in DirectCurrents /\ target_value \in DirectTargets
    /\ annual_rate \in DirectRates /\ monthly_contribution \in DirectContributions
    /\ InitLocals

InitMain ==
    /\ caller = "main" /\ pc = "calculate"
    /\ current_value \in MainCurrents /\ target_value \in MainTargets
    /\ annual_rate \in PORTFOLIO_RATES /\ monthly_contribution \in MainContributions
    /\ InitLocals

Init == InitDirect \/ InitMain

InitSolver ==
    /\ caller = "direct" /\ pc = "start"
    /\ current_value \in SolverCurrents /\ target_value \in SolverTargets
    /\ annual_rate \in SolverRates /\ monthly_contribution \in SolverContributions
    /\ InitLocals

\* ------------------------------------------------------------------------
\* build_projection_table, a simulated year per step
\* ------------------------------------------------------------------------

\* the call: rows = [], balance = current_value, total_years from years.
\* math.ceil raises ValueError for NaN and OverflowError for -inf.
EnterBuild(h) ==
    /\ horizon' = h
    /\ balance' = current_value
    /\ rows' = <<>>
    /\ iterations' = 0
    /\ year' = 1
    /\ IF FNe(h, PosInf) /\ ~IsFinite(h)
       THEN /\ total_years' = 0
            /\ exc' = (IF IsNaN(h) THEN "ValueError" ELSE "OverflowError")
            /\ pc' = "raised"
       ELSE /\ TotalYears(h) <= MaxYears
            /\ total_years' = TotalYears(h)
            /\ exc' = exc
            /\ pc' = "loop"

\* one pass of the body of `for year in range(1, total_years + 1)`
BuildYear ==
    /\ pc = "loop"
    /\ year <= total_years
    /\ LET st == MonthLoop([balance |-> balance, growth_this_year |-> 0,
                            contributions_this_year |-> 0, iterations |-> iterations],
                           MonthsPerYear, FDiv(annual_rate, Twelve), monthly_contribution)
       IN  /\ balance' = st.balance
           /\ iterations' = st.iterations
           /\ rows' = Append(rows, MakeRow(year, st))
    /\ year' = year + 1
    /\ UNCHANGED <<inputs, pc, years, horizon, total_years, exc, calls, ui>>

\* return pd.DataFrame(rows)
BuildReturn ==
    /\ pc = "loop"
    /\ year > total_years
    /\ pc' = (IF caller = "main" THEN "render" ELSE "built")
    /\ UNCHANGED <<inputs, years, locals, exc, calls, ui>>

\* ------------------------------------------------------------------------
\* The functions called on their own
\* ------------------------------------------------------------------------
Solve ==
    /\ pc = "start"
    /\ years' = calculate_years_to_target(current_value, target_value, annual_rate,
                                          monthly_contribution)
    /\ exc' = years'.exc
    /\ pc' = (IF years'.kind = "raise" THEN "raised" ELSE "solved")
    /\ UNCHANGED <<inputs, locals, calls, ui>>

\* the projection over the horizon the solver returned
BuildFromSolver ==
    /\ pc = "solved"
    /\ EnterBuild(years.value)
    /\ UNCHANGED <<inputs, years, calls, ui>>

\* the projection over a given horizon
BuildDirect ==
    /\ pc = "start"
    /\ \E h \in Horizons : EnterBuild(h)
    /\ UNCHANGED <<inputs, years, calls, ui>>

\* ------------------------------------------------------------------------
\* main, after the Calculate button is pressed
\* ------------------------------------------------------------------------

\* if current_value >= target_value: st.success(...); return
TargetReached(current, target) == FGe(current, target)

\* a sentinel test that looks for a negative number instead of +inf
IsUnreachable_negative(y) == FLt(y, 0)

\* if years == float("inf"): st.error(...); return
IsUnreachable(y) == FEq(y, PosInf)

MainAlreadyReached ==
    /\ pc = "calculate"
    /\ TargetReached(current_value, target_value)
    /\ ui' = "success"
    /\ pc' = "done"
    /\ UNCHANGED <<inputs, years, locals, exc, calls>>

MainSolve ==
    /\ pc = "calculate"
    /\ ~TargetReached(current_value, target_value)
    /\ years' = calculate_years_to_target(current_value, target_value, annual_rate,
                                          monthly_contribution)
    /\ calls' = Append(calls, "calculate_years_to_target")
    /\ exc' = years'.exc
    /\ pc' = (IF years'.kind = "raise" THEN "raised" ELSE "check_years")
    /\ UNCHANGED <<inputs, locals, ui>>

MainUnreachable ==
    /\ pc = "check_years"
    /\ IsUnreachable(years.value)
    /\ ui' = "error"
    /\ pc' = "done"
    /\ UNCHANGED <<inputs, years, locals, exc, calls>>

MainBuild ==
    /\ pc = "check_years"
    /\ ~IsUnreachable(years.value)
    /\ EnterBuild(years.value)
    /\ calls' = Append(calls, "build_projection_table")
    /\ UNCHANGED <<inputs, years, ui>>

\* st.dataframe, then df_projection.set_index("Year"): a table without rows has
\* no columns, and set_index raises KeyError; otherwise the chart and the export
MainRender ==
    /\ pc = "render"
    /\ IF rows = <<>>
       THEN exc' = "KeyError" /\ ui' = ui /\ pc' = "raised"
       ELSE exc' = exc /\ ui' = "projection" /\ pc' = "done"
    /\ UNCHANGED <<inputs, years, locals, calls>>

Next ==
    \/ Solve
    \/ BuildFromSolver
    \/ BuildDirect
    \/ BuildYear
    \/ BuildReturn
    \/ MainAlreadyReached
    \/ MainSolve
    \/ MainUnreachable
    \/ MainBuild
    \/ MainRender

Spec == Init /\ [][Next]_vars

\* calculate_years_to_target called on its own, over the wider inputs
SpecSolver == InitSolver /\ [][Solve]_vars

\* ------------------------------------------------------------------------
\* Claims
\* ------------------------------------------------------------------------
BuildReturned == pc \in {"built", "render"}
RowFinite(row) ==
    /\ IsFinite(row.StartingBalance) /\ IsFinite(row.Contributions)
    /\ IsFinite(row.Growth) /\ IsFinite(row.EndingBalance)
RowSumError(row) ==
    Abs(Cents(row.StartingBalance) + Cents(row.Contributions) + Cents(row.Growth)
        - Cents(row.EndingBalance))

\* C1: in every row of the table (with finite fields), Starting Balance +
\* Contributions + Growth differs from Ending Balance by at most 0.01 (one cent).
C1_RowSumWithinOneCent ==
    \A i \in 1..Len(rows) : RowFinite(rows[i]) => RowSumError(rows[i]) <= 1

\* C2: for pure compounding (current > 0, target > current, rate > 0, no
\* contribution) the table built over the horizon the solver returned ends with
\* a row whose Ending Balance is >= target, after a row whose Ending Balance is
\* < target.
C2_RoundTripReachesTarget ==
    (/\ caller = "direct" /\ pc = "built" /\ years.kind = "return"
     /\ IsFinite(years.value)
     /\ current_value > 0 /\ target_value > current_value
     /\ annual_rate > 0 /\ monthly_contribution = 0)
    => /\ Len(rows) >= 1
       /\ FGe(rows[Len(rows)].EndingBalance, target_value)
       /\ Len(rows) >= 2 => FLt(rows[Len(rows) - 1].EndingBalance, target_value)

\* C3: whatever calculate_years_to_target returns is a finite value >= 0 or the
\* unreachable sentinel (+inf).
C3_ReturnsNonNegativeOrSentinel ==
    years.kind = "return" =>
        \/ years.value = PosInf
        \/ (IsFinite(years.value) /\ years.value >= 0)

\* C4: for non-negative inputs with current < target, the solver returns the
\* sentinel exactly when contribution = 0 and (rate = 0 or current = 0), and a
\* finite value otherwise.
C4_SentinelExactlyWhenNoGrowth ==
    (/\ years.kind = "return"
     /\ current_value >= 0 /\ target_value >= 0 /\ annual_rate >= 0
     /\ monthly_contribution >= 0 /\ current_value < target_value)
    => IF monthly_contribution = 0 /\ (annual_rate = 0 \/ current_value = 0)
       THEN years.value = PosInf
       ELSE IsFinite(years.value)

\* C5: calculate_years_to_target never raises.
C5_SolverNeverRaises == years.kind # "raise"

\* C6: the table has ceil(horizon) rows for a finite horizon, 30 rows for the
\* sentinel, and the Year fields are 1, 2, ..., n.
C6_RowCount ==
    /\ \A i \in 1..Len(rows) : rows[i].Year = i
    /\ BuildReturned =>
         Len(rows) = (IF horizon = PosInf THEN UnreachableCapYears ELSE Ceil(horizon))
C6_Witness ==
    /\ pc = "built" /\ horizon = Frac(5, 2) /\ Len(rows) = 3 /\ rows[3].Year = 3

NonDecreasing ==
    \A i \in 1..(Len(rows) - 1) :
        \/ IsNaN(rows[i].EndingBalance) \/ IsNaN(rows[i + 1].EndingBalance)
        \/ rows[i + 1].EndingBalance >= rows[i].EndingBalance

C8_AtMost360Iterations == iterations <= MonthsPerYear * UnreachableCapYears

\* C8 as amended: a call makes 12 passes per row: 12 x ceil(horizon) for a
\* finite horizon, and 12 x 30 = 360 only for the sentinel.
C8_TwelvePerYear ==
    /\ iterations = MonthsPerYear * Len(rows)
    /\ BuildReturned =>
         iterations = MonthsPerYear *
             (IF horizon = PosInf THEN UnreachableCapYears ELSE Ceil(horizon))
C8_Witness ==
    /\ pc = "built" /\ IsFinite(horizon) /\ Ceil(horizon) > UnreachableCapYears
    /\ iterations > MonthsPerYear * UnreachableCapYears

\* C9: in main the solver is called before the builder, and the builder only
\* when current < target and the solver's result is not the sentinel.
C9_BuildOnlyAfterChecks ==
    caller = "main" =>
        /\ (ui = "success" => calls = <<>>)
        /\ (ui = "error" => calls = <<"calculate_years_to_target">>)
        /\ (Len(calls) >= 1 => calls[1] = "calculate_years_to_target")
        /\ (Len(calls) >= 2 =>
              /\ calls = <<"calculate_years_to_target", "build_projection_table">>
              /\ FLt(current_value, target_value)
              /\ years.kind = "return" /\ years.value # PosInf
              /\ horizon = years.value)
C9_Witness ==
    /\ caller = "main" /\ ui = "projection"
    /\ calls = <<"calculate_years_to_target", "build_projection_table">>

\* C10: when main renders the projection, the table has at least one row.
C10_RenderedTableHasRows ==
    (caller = "main" /\ pc = "render") => (horizon > 0 /\ Len(rows) >= 1)

====
